---------------------------- MODULE Spec2Model ----------------------------
(***************************************************************************)
(* Cinderella Bounty: the transactional game-state engine of               *)
(* src/actions/db/cinderella-actions.ts over the tables of                 *)
(* src/db/schema/cinderella-schema.ts.                                     *)
(*                                                                         *)
(* Every server action is a request process.  One step of a process is one *)
(* awaited database statement (or one transaction commit): the store is    *)
(* PostgreSQL at its default READ COMMITTED isolation, so each statement   *)
(* sees what was committed before it ran and nothing else is serialised.   *)
(* A sequential specification runs one request at a time; a race           *)
(* specification lets the steps of several requests interleave.            *)
(***************************************************************************)
EXTENDS Integers, Sequences, FiniteSets, TLC

VARIABLES
    picks,      \* picksTable: rows in insertion order, the index is the row id
    auctions,   \* auctionsTable
    bids,       \* bidsTable
    trades,     \* tradesTable
    scores,     \* scoresTable: user -> None | Some(currentScore)
    now,        \* the wall clock read by new Date()
    proc        \* the requests: process id -> its position and locals

vars == <<picks, auctions, bids, trades, scores, now, proc>>

store == <<picks, auctions, bids, trades, scores>>

-----------------------------------------------------------------------------
(* Bounds of the model *)

MaxBids == 2
MaxTime == 1
MaxTrades == 2

-----------------------------------------------------------------------------
(* Nullable columns and optional results *)

None == <<>>
Some(v) == <<v>>

Max(S) == CHOOSE x \in S : \A y \in S : y <= x

SeqToSet(s) == {s[i] : i \in 1..Len(s)}

-----------------------------------------------------------------------------
(* Team catalog *)

CINDERELLA_SEEDS == 9..16
FAVORITE_SEEDS == 1..4

\* the rows of teamsTable, in the order the store returns them
teamsTable ==
    << [id |-> "c1", seed |-> 9],  [id |-> "c2", seed |-> 13],
       [id |-> "c3", seed |-> 16], [id |-> "c4", seed |-> 12],
       [id |-> "f1", seed |-> 1],  [id |-> "f2", seed |-> 4],
       [id |-> "m1", seed |-> 6] >>

TeamIds == {teamsTable[i].id : i \in 1..Len(teamsTable)}

\* an identifier of no team
UnknownTeam == "zz"

Users == {"u1", "u2", "u3"}

\* the falsy user id
NoUserId == ""

Bidders == {"u1", "u2"}

-----------------------------------------------------------------------------
(* Requests *)

Idle == [op |-> "none", pc |-> "idle"]

Free(p) == proc[p].pc \in {"idle", "done"}

\* the ActionState a request returns
Return(call, ok, message) ==
    [op |-> call.op, pc |-> "done", call |-> call, isSuccess |-> ok, message |-> message]

\* numeric(10, 2): amounts are counted in thousandths and a stored amount
\* is rounded to the cent, half away from zero
ToNumeric(a) == IF a >= 0 THEN ((a + 5) \div 10) * 10 ELSE -(((-a + 5) \div 10) * 10)

Amounts == {-10, 0, 10, 14, 20}

\* whole cents only
RaceAmounts == {10, 20}


-----------------------------------------------------------------------------
(* Reads of the store *)

AuctionIds == 1..Len(auctions)

\* tx.query.auctions.findFirst({ where: eq(auctionsTable.id, auctionId) })
FindAuction(auctionId) ==
    IF auctionId \in AuctionIds THEN Some(auctions[auctionId]) ELSE None

BidsOf(auctionId) == {i \in 1..Len(bids) : bids[i].auctionId = auctionId}

\* SELECT MAX(amount) FROM bids WHERE auction_id = auctionId: NULL without rows
MaxAmount(auctionId) ==
    IF BidsOf(auctionId) = {} THEN None
    ELSE Some(Max({bids[i].amount : i \in BidsOf(auctionId)}))

\* highestBid?.maxAmount || 0
CurrentHighest(maxAmount) == IF maxAmount = None THEN 0 ELSE maxAmount[1]

\* a closeAuction that orders ascending: the lowest per-user maximum comes first
TopBidAscending(auctionId) ==
    LET grouped == { [userId |-> bids[i].userId,
                      maxAmount |-> Max({bids[j].amount : j \in
                          {k \in BidsOf(auctionId) : bids[k].userId = bids[i].userId}})]
                     : i \in BidsOf(auctionId) }
    IN {g \in grouped : \A h \in grouped : g.maxAmount <= h.maxAmount}

\* SELECT user_id, MAX(amount) ... GROUP BY user_id ORDER BY MAX(amount) DESC
\* LIMIT 1: the rows the statement may return (SQL leaves the order of equal
\* keys open); empty when the auction has no bids
TopBid(auctionId) ==
    LET grouped == { [userId |-> bids[i].userId,
                      maxAmount |-> Max({bids[j].amount : j \in
                          {k \in BidsOf(auctionId) : bids[k].userId = bids[i].userId}})]
                     : i \in BidsOf(auctionId) }
    IN {g \in grouped : \A h \in grouped : h.maxAmount <= g.maxAmount}

-----------------------------------------------------------------------------
(* createUserPicksAction *)

PicksCall(userId, teamIds) == [op |-> "submitPicks", userId |-> userId, teamIds |-> teamIds]

\* db.query.picks.findFirst({ where: eq(picksTable.userId, userId) })
ExistingPicks(userId) == \E i \in 1..Len(picks) : picks[i].userId = userId

\* db.query.teams.findMany({ where: inArray(teamsTable.id, teamIds) })
FetchTeams(teamIds) == SelectSeq(teamsTable, LAMBDA t : t.id \in SeqToSet(teamIds))

TeamIdsOf(teams) == [i \in 1..Len(teams) |-> teams[i].id]

CountSeeds(teams, seeds) == Cardinality({i \in 1..Len(teams) : teams[i].seed \in seeds})

\* a createUserPicksAction that tallies nothing: any four known teams pass
PicksCheckNoTally(userId, teamIds, existingPicks, teams) ==
    IF userId = NoUserId \/ Len(teamIds) # 4
    THEN "You must select exactly 4 teams."
    ELSE IF existingPicks
    THEN "You have already made your picks."
    ELSE IF Len(teams) # 4
    THEN "One or more selected teams could not be found."
    ELSE "ok"

\* the checks of the action, in its order; "ok" when the picks go on to the insert
PicksCheck(userId, teamIds, existingPicks, teams) ==
    IF userId = NoUserId \/ Len(teamIds) # 4
    THEN "You must select exactly 4 teams."
    ELSE IF existingPicks
    THEN "You have already made your picks."
    ELSE IF Len(teams) # 4
    THEN "One or more selected teams could not be found."
    ELSE IF \E i, j \in 1..Len(teams) : i < j /\ teams[i].id = teams[j].id
    THEN "Duplicate team selection."
    ELSE IF \E i \in 1..Len(teams) :
                teams[i].seed \notin CINDERELLA_SEEDS /\ teams[i].seed \notin FAVORITE_SEEDS
    THEN "Invalid pick: neither cinderella nor favorite."
    ELSE IF CountSeeds(teams, CINDERELLA_SEEDS) # 3 \/ CountSeeds(teams, FAVORITE_SEEDS) # 1
    THEN "Invalid distribution of picks."
    ELSE "ok"

\* picksToInsert
PicksToInsert(userId, teams) ==
    [i \in 1..Len(teams) |->
        [userId |-> userId, teamId |-> teams[i].id,
         type |-> IF teams[i].seed \in CINDERELLA_SEEDS THEN "cinderella" ELSE "favorite"]]

\* 1)-3) the input check, the read of the user's picks, the fetch of the
\* teams (a read of the immutable catalog) and the tally
createUserPicks_validate(p, userId, teamIds) ==
    /\ Free(p)
    /\ LET call == PicksCall(userId, teamIds)
           teams == FetchTeams(teamIds)
           check == PicksCheck(userId, teamIds, ExistingPicks(userId), teams)
       IN proc' = [proc EXCEPT ![p] =
              IF check # "ok" THEN Return(call, FALSE, check)
              ELSE [op |-> "submitPicks", pc |-> "insert", call |-> call,
                    teams |-> TeamIdsOf(teams), k |-> 1]]
    /\ UNCHANGED <<store, now>>

\* 4) insert the picks in one transaction
createUserPicks_insert(p) ==
    /\ proc[p].pc = "insert"
    /\ picks' = picks \o PicksToInsert(proc[p].call.userId, FetchTeams(proc[p].teams))
    /\ proc' = [proc EXCEPT ![p].pc = "count"]
    /\ UNCHANGED <<auctions, bids, trades, scores, now>>

\* the end of one round of the loop over the teams
NextTeam(r) ==
    IF r.k = Len(r.teams)
    THEN Return(r.call, TRUE, "Picks created successfully")
    ELSE [r EXCEPT !.pc = "count", !.k = r.k + 1]

\* SELECT COUNT(*) FROM picks WHERE team_id = teamId
PickCount(teamId) == Cardinality({i \in 1..Len(picks) : picks[i].teamId = teamId})

\* db.query.auctions.findFirst({ where: eq(auctionsTable.teamId, teamId) })
ExistingAuction(teamId) == \E a \in AuctionIds : auctions[a].teamId = teamId

\* a detector that takes a team for contested from the third pick on
createUserPicks_countAboveTwo(p) ==
    /\ proc[p].pc = "count"
    /\ proc' = [proc EXCEPT ![p] =
           IF PickCount(proc[p].teams[proc[p].k]) > 2
           THEN [proc[p] EXCEPT !.pc = "findAuction"]
           ELSE NextTeam(proc[p])]
    /\ UNCHANGED <<store, now>>

\* 5) count the picks of the team
createUserPicks_count(p) ==
    /\ proc[p].pc = "count"
    /\ proc' = [proc EXCEPT ![p] =
           IF PickCount(proc[p].teams[proc[p].k]) > 1
           THEN [proc[p] EXCEPT !.pc = "findAuction"]
           ELSE NextTeam(proc[p])]
    /\ UNCHANGED <<store, now>>

\* the team is contested: look for its auction
createUserPicks_findAuction(p) ==
    /\ proc[p].pc = "findAuction"
    /\ proc' = [proc EXCEPT ![p] =
           IF ~ExistingAuction(proc[p].teams[proc[p].k])
           THEN [proc[p] EXCEPT !.pc = "createAuction"]
           ELSE NextTeam(proc[p])]
    /\ UNCHANGED <<store, now>>

NewAuction(teamId) ==
    [teamId |-> teamId, status |-> "scheduled", endTime |-> None,
     finalBidAmount |-> None, winnerUserId |-> None]

\* createAuctionAction(team.id): a plain insert
createAuctionAction(p) ==
    /\ proc[p].pc = "createAuction"
    /\ auctions' = Append(auctions, NewAuction(proc[p].teams[proc[p].k]))
    /\ proc' = [proc EXCEPT ![p] = NextTeam(proc[p])]
    /\ UNCHANGED <<picks, bids, trades, scores, now>>

-----------------------------------------------------------------------------
(* placeBidAction: one transaction, three statements *)

BidCall(auctionId, userId, amount) ==
    [op |-> "placeBid", auctionId |-> auctionId, userId |-> userId, amount |-> amount]

\* a placeBid that takes bids on open auctions only
AuctionCheckOpenOnly(auction, time) ==
    IF auction = None THEN "Auction not found."
    ELSE IF auction[1].status # "open"
         THEN "Cannot place a bid on an auction with this status."
    ELSE IF auction[1].endTime # None /\ time > auction[1].endTime[1]
         THEN "Auction has already ended."
    ELSE "ok"

\* a placeBid that never looks at the end time
AuctionCheckNoEndTime(auction, time) ==
    IF auction = None THEN "Auction not found."
    ELSE IF auction[1].status # "open" /\ auction[1].status # "scheduled"
         THEN "Cannot place a bid on an auction with this status."
    ELSE "ok"

\* a placeBid that takes the end time itself as past
AuctionCheckEndInclusive(auction, time) ==
    IF auction = None THEN "Auction not found."
    ELSE IF auction[1].status # "open" /\ auction[1].status # "scheduled"
         THEN "Cannot place a bid on an auction with this status."
    ELSE IF auction[1].endTime # None /\ time >= auction[1].endTime[1]
         THEN "Auction has already ended."
    ELSE "ok"

\* the checks on the auction row that was read
AuctionCheck(auction, time) ==
    IF auction = None THEN "Auction not found."
    ELSE IF auction[1].status # "open" /\ auction[1].status # "scheduled"
         THEN "Cannot place a bid on an auction with this status."
    ELSE IF auction[1].endTime # None /\ time > auction[1].endTime[1]
         THEN "Auction has already ended."
    ELSE "ok"

\* a placeBid that lets a bid equal to the highest one through
AmountCheckBelowOnly(amount, currentHighest) ==
    IF amount < currentHighest THEN "Your bid must exceed the current highest bid."
    ELSE "ok"

\* amount <= currentHighest throws
AmountCheck(amount, currentHighest) ==
    IF amount <= currentHighest THEN "Your bid must exceed the current highest bid."
    ELSE "ok"

\* the bids table of the model holds MaxBids rows: a request that may insert
\* one starts only while there is room for it
BidsInFlight == Cardinality({q \in DOMAIN proc : proc[q].pc \in {"readMax", "insertBid"}})

\* 1) read the auction row and check its status and end time
placeBid_readAuction(p, auctionId, userId, amount) ==
    /\ Free(p)
    /\ LET call == BidCall(auctionId, userId, amount)
           check == AuctionCheck(FindAuction(auctionId), now)
       IN /\ check = "ok" => Len(bids) + BidsInFlight < MaxBids
          /\ proc' = [proc EXCEPT ![p] =
              IF check # "ok" THEN Return(call, FALSE, check)
              ELSE [op |-> "placeBid", pc |-> "readMax", call |-> call]]
    /\ UNCHANGED <<store, now>>

\* 2) read the highest bid and compare
placeBid_readMax(p) ==
    /\ proc[p].pc = "readMax"
    /\ LET call == proc[p].call
           check == AmountCheck(call.amount, CurrentHighest(MaxAmount(call.auctionId)))
       IN proc' = [proc EXCEPT ![p] =
              IF check # "ok" THEN Return(call, FALSE, check)
              ELSE [op |-> "placeBid", pc |-> "insertBid", call |-> call]]
    /\ UNCHANGED <<store, now>>

\* a placeBid that also opens the auction it bids on
placeBid_insertOpening(p) ==
    /\ proc[p].pc = "insertBid"
    /\ LET call == proc[p].call
       IN /\ bids' = Append(bids, [auctionId |-> call.auctionId,
                                   userId |-> call.userId,
                                   amount |-> ToNumeric(call.amount)])
          /\ auctions' = [auctions EXCEPT ![call.auctionId].status = "open"]
          /\ proc' = [proc EXCEPT ![p] = Return(call, TRUE, "Bid placed successfully")]
    /\ UNCHANGED <<picks, trades, scores, now>>

\* 3) insert the bid and commit
placeBid_insert(p) ==
    /\ proc[p].pc = "insertBid"
    /\ LET call == proc[p].call
       IN /\ bids' = Append(bids, [auctionId |-> call.auctionId,
                                   userId |-> call.userId,
                                   amount |-> ToNumeric(call.amount)])
          /\ proc' = [proc EXCEPT ![p] = Return(call, TRUE, "Bid placed successfully")]
    /\ UNCHANGED <<picks, auctions, trades, scores, now>>

-----------------------------------------------------------------------------
(* closeAuctionAction: two statements, no transaction *)

CloseCall(auctionId) == [op |-> "closeAuction", auctionId |-> auctionId]

\* a closeAuction that writes a zero final amount when there is no bid
ClosedRowZeroAmount(row, topBid) ==
    IF topBid = None
    THEN [row EXCEPT !.status = "closed", !.finalBidAmount = Some(0)]
    ELSE [row EXCEPT !.status = "closed",
                     !.finalBidAmount = Some(topBid[1].maxAmount),
                     !.winnerUserId = Some(topBid[1].userId)]

\* the SET clause of the update, by whether a top bid was read
ClosedRow(row, topBid) ==
    IF topBid = None
    THEN [row EXCEPT !.status = "closed"]
    ELSE [row EXCEPT !.status = "closed",
                     !.finalBidAmount = Some(topBid[1].maxAmount),
                     !.winnerUserId = Some(topBid[1].userId)]

\* 1) find the highest bid
closeAuction_readTop(p, auctionId) ==
    /\ Free(p)
    /\ \E topBid \in IF TopBid(auctionId) = {} THEN {None}
                     ELSE {Some(t) : t \in TopBid(auctionId)} :
          proc' = [proc EXCEPT ![p] =
              [op |-> "closeAuction", pc |-> "update",
               call |-> CloseCall(auctionId), topBid |-> topBid]]
    /\ UNCHANGED <<store, now>>

\* a closeAuction that also gives the winner a score row
closeAuction_updateScoring(p) ==
    /\ proc[p].pc = "update"
    /\ LET call == proc[p].call
           topBid == proc[p].topBid
       IN /\ auctions' = [a \in AuctionIds |->
                 IF a = call.auctionId THEN ClosedRow(auctions[a], topBid)
                 ELSE auctions[a]]
          /\ scores' = IF topBid = None THEN scores
                       ELSE [scores EXCEPT ![topBid[1].userId] = Some(0)]
          /\ proc' = [proc EXCEPT ![p] =
                 [op |-> "closeAuction", pc |-> "done", call |-> call,
                  isSuccess |-> TRUE, topBid |-> topBid,
                  message |-> IF topBid = None THEN "Auction closed with no bids"
                              ELSE "Auction closed successfully"]]
    /\ UNCHANGED <<picks, bids, trades, now>>

\* a closeAuction that makes the winner the holder of every Pick row of the team
closeAuction_updateAwarding(p) ==
    /\ proc[p].pc = "update"
    /\ LET call == proc[p].call
           topBid == proc[p].topBid
       IN /\ auctions' = [a \in AuctionIds |->
                 IF a = call.auctionId THEN ClosedRow(auctions[a], topBid)
                 ELSE auctions[a]]
          /\ picks' = [i \in 1..Len(picks) |->
                 IF /\ topBid # None
                    /\ call.auctionId \in AuctionIds
                    /\ picks[i].teamId = auctions[call.auctionId].teamId
                 THEN [picks[i] EXCEPT !.userId = topBid[1].userId]
                 ELSE picks[i]]
          /\ proc' = [proc EXCEPT ![p] =
                 [op |-> "closeAuction", pc |-> "done", call |-> call,
                  isSuccess |-> TRUE, topBid |-> topBid,
                  message |-> IF topBid = None THEN "Auction closed with no bids"
                              ELSE "Auction closed successfully"]]
    /\ UNCHANGED <<bids, trades, scores, now>>

\* 2) update the auction row (no row matches an unknown id)
closeAuction_update(p) ==
    /\ proc[p].pc = "update"
    /\ LET call == proc[p].call
           topBid == proc[p].topBid
       IN /\ auctions' = [a \in AuctionIds |->
                 IF a = call.auctionId THEN ClosedRow(auctions[a], topBid)
                 ELSE auctions[a]]
          /\ proc' = [proc EXCEPT ![p] =
                 [op |-> "closeAuction", pc |-> "done", call |-> call,
                  isSuccess |-> TRUE, topBid |-> topBid,
                  message |-> IF topBid = None THEN "Auction closed with no bids"
                              ELSE "Auction closed successfully"]]
    /\ UNCHANGED <<picks, bids, trades, scores, now>>

\* the clock advances
Tick ==
    /\ now < MaxTime
    /\ now' = now + 1
    /\ UNCHANGED <<store, proc>>


-----------------------------------------------------------------------------
(* createTradeOfferAction: three statements *)

TradeIds == 1..Len(trades)

TradeCall(initiatorId, recipientId, initiatorTeamId, recipientTeamId, cashAmount) ==
    [op |-> "createTradeOffer", initiatorId |-> initiatorId, recipientId |-> recipientId,
     initiatorTeamId |-> initiatorTeamId, recipientTeamId |-> recipientTeamId,
     cashAmount |-> cashAmount]

\* SELECT FROM picks WHERE user_id = userId AND team_id = teamId
OwnedRows(rows, userId, teamId) ==
    {i \in 1..Len(rows) : rows[i].userId = userId /\ rows[i].teamId = teamId}

\* the trades table of the model holds MaxTrades rows
TradesInFlight ==
    Cardinality({q \in DOMAIN proc : proc[q].pc \in {"recipientPick", "insertTrade"}})

\* the initiator's pick
createTradeOffer_initiatorPick(p, initiatorId, recipientId, initiatorTeamId, recipientTeamId, cashAmount) ==
    /\ Free(p)
    /\ LET call == TradeCall(initiatorId, recipientId, initiatorTeamId,
                             recipientTeamId, cashAmount)
           owned == OwnedRows(picks, initiatorId, initiatorTeamId) # {}
       IN /\ owned => Len(trades) + TradesInFlight < MaxTrades
          /\ proc' = [proc EXCEPT ![p] =
                 IF ~owned
                 THEN Return(call, FALSE, "Initiator does not own the specified team.")
                 ELSE [op |-> "createTradeOffer", pc |-> "recipientPick", call |-> call]]
    /\ UNCHANGED <<store, now>>

\* a createTradeOffer that does not look for the recipient's pick
createTradeOffer_recipientPickUnchecked(p) ==
    /\ proc[p].pc = "recipientPick"
    /\ proc' = [proc EXCEPT ![p].pc = "insertTrade"]
    /\ UNCHANGED <<store, now>>

\* the recipient's pick
createTradeOffer_recipientPick(p) ==
    /\ proc[p].pc = "recipientPick"
    /\ LET call == proc[p].call
       IN proc' = [proc EXCEPT ![p] =
              IF OwnedRows(picks, call.recipientId, call.recipientTeamId) = {}
              THEN Return(call, FALSE, "Recipient does not own the specified team.")
              ELSE [proc[p] EXCEPT !.pc = "insertTrade"]]
    /\ UNCHANGED <<store, now>>

\* an offer row that leaves the cash amount to the column default
NewTradeNoCash(call) ==
    [initiatorId |-> call.initiatorId, recipientId |-> call.recipientId,
     initiatorTeamId |-> call.initiatorTeamId, recipientTeamId |-> call.recipientTeamId,
     cashAmount |-> 0, status |-> "pending"]

\* the row of a new offer
NewTrade(call) ==
    [initiatorId |-> call.initiatorId, recipientId |-> call.recipientId,
     initiatorTeamId |-> call.initiatorTeamId, recipientTeamId |-> call.recipientTeamId,
     cashAmount |-> ToNumeric(call.cashAmount), status |-> "pending"]

\* insert the trade
createTradeOffer_insert(p) ==
    /\ proc[p].pc = "insertTrade"
    /\ trades' = Append(trades, NewTrade(proc[p].call))
    /\ proc' = [proc EXCEPT ![p] =
           Return(proc[p].call, TRUE, "Trade offer created successfully")]
    /\ UNCHANGED <<picks, auctions, bids, scores, now>>

-----------------------------------------------------------------------------
(* respondToTradeOfferAction: a read, then an update (reject) or a          *)
(* transaction of three updates (accept)                                    *)

RespondCall(tradeId, accept) ==
    [op |-> "respondToTradeOffer", tradeId |-> tradeId, accept |-> accept]

\* db.query.trades.findFirst({ where: eq(tradesTable.id, tradeId) })
FindTrade(tradeId) == IF tradeId \in TradeIds THEN Some(trades[tradeId]) ELSE None

\* a respondToTradeOffer that does not look at the status
TradeCheckFoundOnly(trade) ==
    IF trade = None THEN "Trade not found" ELSE "ok"

\* the checks on the trade row that was read
TradeCheck(trade) ==
    IF trade = None THEN "Trade not found"
    ELSE IF trade[1].status # "pending" THEN "Cannot respond to a trade with this status."
    ELSE "ok"

\* read the trade
respondToTradeOffer_read(p, tradeId, accept) ==
    /\ Free(p)
    /\ LET call == RespondCall(tradeId, accept)
           trade == FindTrade(tradeId)
           check == TradeCheck(trade)
       IN proc' = [proc EXCEPT ![p] =
              IF check # "ok" THEN Return(call, FALSE, check)
              ELSE [op |-> "respondToTradeOffer",
                    pc |-> IF accept THEN "updateInitiator" ELSE "reject",
                    call |-> call, trade |-> trade[1], moved |-> <<>>]]
    /\ UNCHANGED <<store, now>>

SetStatus(tradeId, status) ==
    [t \in TradeIds |-> IF t = tradeId THEN [trades[t] EXCEPT !.status = status]
                        ELSE trades[t]]

\* a reject that marks the trade canceled
respondToTradeOffer_rejectAsCanceled(p) ==
    /\ proc[p].pc = "reject"
    /\ trades' = SetStatus(proc[p].call.tradeId, "canceled")
    /\ proc' = [proc EXCEPT ![p] = Return(proc[p].call, TRUE, "Trade rejected")]
    /\ UNCHANGED <<picks, auctions, bids, scores, now>>

\* REJECT
respondToTradeOffer_reject(p) ==
    /\ proc[p].pc = "reject"
    /\ trades' = SetStatus(proc[p].call.tradeId, "rejected")
    /\ proc' = [proc EXCEPT ![p] = Return(proc[p].call, TRUE, "Trade rejected")]
    /\ UNCHANGED <<picks, auctions, bids, scores, now>>

\* the picks a transaction sees: the committed rows under its own updates
TxView(moved) ==
    [i \in 1..Len(picks) |->
        IF i \in DOMAIN moved THEN [picks[i] EXCEPT !.userId = moved[i]] ELSE picks[i]]

\* the rows another open transaction has updated and holds locked
LockedByOthers(p) ==
    UNION {DOMAIN proc[q].moved : q \in
              {r \in DOMAIN proc \ {p} : proc[r].pc \in {"updateRecipient", "commitTrade"}}}

\* UPDATE picks SET user_id = newUser WHERE user_id = userId AND team_id = teamId,
\* inside the transaction: every matching row moves
UpdateOwner(moved, userId, teamId, newUser) ==
    [i \in OwnedRows(TxView(moved), userId, teamId) |-> newUser] @@ moved

\* ACCEPT: the initiator's team goes to the recipient
respondToTradeOffer_updateInitiator(p) ==
    /\ proc[p].pc = "updateInitiator"
    /\ LET t == proc[p].trade
       IN /\ OwnedRows(TxView(proc[p].moved), t.initiatorId, t.initiatorTeamId)
                \cap LockedByOthers(p) = {}
          /\ proc' = [proc EXCEPT ![p].pc = "updateRecipient",
                 ![p].moved = UpdateOwner(proc[p].moved, t.initiatorId,
                                          t.initiatorTeamId, t.recipientId)]
    /\ UNCHANGED <<store, now>>

\* the recipient's team goes to the initiator
respondToTradeOffer_updateRecipient(p) ==
    /\ proc[p].pc = "updateRecipient"
    /\ LET t == proc[p].trade
       IN /\ OwnedRows(TxView(proc[p].moved), t.recipientId, t.recipientTeamId)
                \cap LockedByOthers(p) = {}
          /\ proc' = [proc EXCEPT ![p].pc = "commitTrade",
                 ![p].moved = UpdateOwner(proc[p].moved, t.recipientId,
                                          t.recipientTeamId, t.initiatorId)]
    /\ UNCHANGED <<store, now>>

\* a commit that loses the last Pick row
respondToTradeOffer_commitDropping(p) ==
    /\ proc[p].pc = "commitTrade"
    /\ picks' = SubSeq(TxView(proc[p].moved), 1, Len(picks) - 1)
    /\ trades' = SetStatus(proc[p].call.tradeId, "accepted")
    /\ proc' = [proc EXCEPT ![p] =
           [op |-> "respondToTradeOffer", pc |-> "done", call |-> proc[p].call,
            isSuccess |-> TRUE, message |-> "Trade accepted",
            trade |-> proc[p].trade, moved |-> proc[p].moved]]
    /\ UNCHANGED <<auctions, bids, scores, now>>

\* the trade is marked accepted and the transaction commits
respondToTradeOffer_commit(p) ==
    /\ proc[p].pc = "commitTrade"
    /\ picks' = TxView(proc[p].moved)
    /\ trades' = SetStatus(proc[p].call.tradeId, "accepted")
    /\ proc' = [proc EXCEPT ![p] =
           [op |-> "respondToTradeOffer", pc |-> "done", call |-> proc[p].call,
            isSuccess |-> TRUE, message |-> "Trade accepted",
            trade |-> proc[p].trade, moved |-> proc[p].moved]]
    /\ UNCHANGED <<auctions, bids, scores, now>>

-----------------------------------------------------------------------------
(* The store of the auction specifications: u1 and u2 have committed their  *)
(* picks, c1 and c2 are contested and have their auctions.  Opening an      *)
(* auction and setting its end time are the operator's, outside the engine. *)

NoAuction == 3

PicksOf(userId, teamIds) == PicksToInsert(userId, FetchTeams(teamIds))

ContestedPicks ==
    PicksOf("u1", <<"c1", "c2", "c3", "f1">>) \o PicksOf("u2", <<"c1", "c2", "c4", "f2">>)

NoScores == [u \in Users |-> None]

InitAuctionStore ==
    /\ picks = ContestedPicks
    /\ auctions = << NewAuction("c1"),
                     [NewAuction("c2") EXCEPT !.status = "open", !.endTime = Some(0)] >>
    /\ bids = <<>>
    /\ trades = <<>>
    /\ scores = NoScores
    /\ now = 0

SeqProcs == {1}
RaceProcs == {1, 2}
RaceAuctions == {1}

InitAuction ==
    /\ InitAuctionStore
    /\ proc = [p \in SeqProcs |-> Idle]

NextAuction ==
    \/ \E p \in SeqProcs :
          /\ Free(p)
          /\ \E a \in 1..NoAuction, u \in Bidders, amt \in Amounts :
                placeBid_readAuction(p, a, u, amt)
    \/ \E p \in SeqProcs : placeBid_readMax(p)
    \/ \E p \in SeqProcs : placeBid_insert(p)
    \/ \E p \in SeqProcs, a \in 1..NoAuction : closeAuction_readTop(p, a)
    \/ \E p \in SeqProcs : closeAuction_update(p)
    \/ Tick

\* one auction request at a time
SpecAuction == InitAuction /\ [][NextAuction]_vars

InitBidRace ==
    /\ InitAuctionStore
    /\ proc = [p \in RaceProcs |-> Idle]

NextBidRace ==
    \/ \E p \in RaceProcs :
          /\ Free(p)
          /\ \E a \in RaceAuctions, u \in Bidders, amt \in RaceAmounts :
                placeBid_readAuction(p, a, u, amt)
    \/ \E p \in RaceProcs : placeBid_readMax(p)
    \/ \E p \in RaceProcs : placeBid_insert(p)
    \/ \E p \in RaceProcs, a \in RaceAuctions : closeAuction_readTop(p, a)
    \/ \E p \in RaceProcs : closeAuction_update(p)

\* auction requests whose statements interleave
SpecBidRace == InitBidRace /\ [][NextBidRace]_vars


-----------------------------------------------------------------------------
(* Claims on the auction operations *)

Done(p, op) == proc[p].op = op /\ proc[p].pc = "done"

\* C1: for every auction the accepted bid amounts, in acceptance order, are
\* strictly increasing, also when placeBid requests interleave
C1_BidsStrictlyIncreasing ==
    \A i, j \in 1..Len(bids) :
        (i < j /\ bids[i].auctionId = bids[j].auctionId) => bids[i].amount < bids[j].amount

\* C9: a closeAuction on an auction with at least one bid leaves it closed,
\* with the maximum bid amount as final amount and a bidder of that maximum
\* as winning user
C9_CloseWithBids ==
    \A p \in DOMAIN proc :
        (/\ Done(p, "closeAuction")
         /\ proc[p].call.auctionId \in AuctionIds
         /\ BidsOf(proc[p].call.auctionId) # {})
        => LET a == proc[p].call.auctionId
               top == Max({bids[i].amount : i \in BidsOf(a)})
           IN /\ proc[p].isSuccess
              /\ auctions[a].status = "closed"
              /\ auctions[a].finalBidAmount = Some(top)
              /\ \E i \in BidsOf(a) :
                    /\ bids[i].amount = top
                    /\ auctions[a].winnerUserId = Some(bids[i].userId)

\* a close after two bids of different amounts, the lower one by the user
\* who does not win
C9_Witness ==
    \E p \in DOMAIN proc :
        /\ Done(p, "closeAuction")
        /\ proc[p].call.auctionId \in AuctionIds
        /\ \E i, j \in BidsOf(proc[p].call.auctionId) :
              /\ bids[i].amount < bids[j].amount
              /\ bids[i].userId # bids[j].userId
              /\ auctions[proc[p].call.auctionId].winnerUserId = Some(bids[j].userId)

\* C10: a closeAuction on an auction without bids leaves it closed with no
\* winning user and no final amount, and leaves the Pick rows as they were
C10_CloseWithoutBids ==
    \A p \in DOMAIN proc :
        (/\ Done(p, "closeAuction")
         /\ proc[p].call.auctionId \in AuctionIds
         /\ BidsOf(proc[p].call.auctionId) = {})
        => LET a == proc[p].call.auctionId
           IN /\ proc[p].isSuccess
              /\ auctions[a].status = "closed"
              /\ auctions[a].finalBidAmount = None
              /\ auctions[a].winnerUserId = None
              /\ picks = ContestedPicks

\* a close of the bidless auction c1 while the other auction has a bid
C10_Witness ==
    \E p \in DOMAIN proc :
        /\ Done(p, "closeAuction")
        /\ proc[p].call.auctionId \in AuctionIds
        /\ BidsOf(proc[p].call.auctionId) = {}
        /\ auctions[proc[p].call.auctionId].status = "closed"
        /\ bids # <<>>


\* the request p returns in this step
Returns(p, op) ==
    /\ proc'[p] # proc[p]
    /\ proc'[p].op = op
    /\ proc'[p].pc = "done"

\* the request p starts in this step
Starts(p, op) ==
    /\ Free(p)
    /\ proc'[p] # proc[p]
    /\ proc'[p].op = op

\* C11: a closed auction stays closed, and no Bid row of a closed auction is
\* inserted, also when the placeBid read the auction before the close
C11_ClosedIsFinal ==
    [][\A a \in AuctionIds :
          auctions[a].status = "closed" =>
              /\ auctions'[a].status = "closed"
              /\ BidsOf(a)' = BidsOf(a)]_vars

\* C12: a placeBid whose amount is not strictly greater than the maximum bid
\* of the auction (zero without bids) returns a failure and appends no Bid row
C12_LowBidRejected ==
    [][\A p \in DOMAIN proc :
          (/\ Returns(p, "placeBid")
           /\ proc'[p].call.auctionId \in AuctionIds
           /\ LET a == proc'[p].call.auctionId
                  leading == IF BidsOf(a) = {} THEN 0
                             ELSE Max({bids[i].amount : i \in BidsOf(a)})
              IN proc'[p].call.amount <= leading)
          => /\ ~proc'[p].isSuccess
             /\ bids' = bids]_vars

\* a bid equal to the leading bid was rejected on its amount
C12_Witness ==
    \E p \in DOMAIN proc :
        /\ Done(p, "placeBid")
        /\ ~proc[p].isSuccess
        /\ proc[p].message = "Your bid must exceed the current highest bid."
        /\ \E i \in 1..Len(bids) :
              /\ bids[i].auctionId = proc[p].call.auctionId
              /\ bids[i].amount = proc[p].call.amount

\* the end time of the auction is defined and has passed
Ended(a) == auctions[a].endTime # None /\ auctions[a].endTime[1] < now

\* C13: a placeBid on an auction that does not exist, is closed, or has a
\* defined end time that has passed returns a failure and leaves the store
\* unchanged
C13_BidOnDeadAuction ==
    [][\A p \in DOMAIN proc :
          (/\ Starts(p, "placeBid")
           /\ LET a == proc'[p].call.auctionId
              IN a \in AuctionIds => (auctions[a].status = "closed" \/ Ended(a)))
          => /\ proc'[p].pc = "done"
             /\ ~proc'[p].isSuccess
             /\ store' = store]_vars

\* a bid was rejected because the end time had passed, on an auction that
\* holds an earlier bid
C13_Witness ==
    \E p \in DOMAIN proc :
        /\ Done(p, "placeBid")
        /\ ~proc[p].isSuccess
        /\ proc[p].message = "Auction has already ended."
        /\ BidsOf(proc[p].call.auctionId) # {}


-----------------------------------------------------------------------------
(* One pick submission, on each of three stores the program reaches and     *)
(* with every list of team identifiers                                      *)

UserOnePicks == PicksOf("u1", <<"c1", "c2", "c3", "f1">>)

InitPickStores ==
    { [picks |-> <<>>, auctions |-> <<>>],
      [picks |-> UserOnePicks, auctions |-> <<>>],
      [picks |-> ContestedPicks, auctions |-> <<NewAuction("c1"), NewAuction("c2")>>] }

AnyTeamId == TeamIds \cup {UnknownTeam}

\* every list of four identifiers, and lists of three and of five
PickLists ==
    [1..4 -> AnyTeamId] \cup [1..3 -> {"c1", "c2", "c3", "f1"}]
                        \cup [1..5 -> {"c1", "c2", "c3", "f1"}]

InitPickInput ==
    /\ \E s \in InitPickStores : picks = s.picks /\ auctions = s.auctions
    /\ bids = <<>>
    /\ trades = <<>>
    /\ scores = NoScores
    /\ now = 0
    /\ proc = [p \in SeqProcs |-> Idle]

NextPickInput ==
    \/ \E p \in SeqProcs :
          /\ proc[p].pc = "idle"
          /\ \E u \in Users \cup {NoUserId}, ids \in PickLists :
                createUserPicks_validate(p, u, ids)
    \/ \E p \in SeqProcs : createUserPicks_insert(p)
    \/ \E p \in SeqProcs : createUserPicks_count(p)
    \/ \E p \in SeqProcs : createUserPicks_findAuction(p)
    \/ \E p \in SeqProcs : createAuctionAction(p)

SpecPickInput == InitPickInput /\ [][NextPickInput]_vars

-----------------------------------------------------------------------------
(* Two pick submissions whose statements interleave, on the empty store *)

\* the pick sets of 3 cinderellas and 1 favorite, as lists
ValidPickLists ==
    {TeamIdsOf(FetchTeams(ids)) : ids \in
        {x \in [1..4 -> TeamIds] : PicksCheck("u1", x, FALSE, FetchTeams(x)) = "ok"}}

InitPickRace ==
    /\ picks = <<>>
    /\ auctions = <<>>
    /\ bids = <<>>
    /\ trades = <<>>
    /\ scores = NoScores
    /\ now = 0
    /\ proc = [p \in RaceProcs |-> Idle]

NextPickRace ==
    \/ \E p \in RaceProcs :
          /\ proc[p].pc = "idle"
          /\ \E u \in Bidders, ids \in ValidPickLists :
                createUserPicks_validate(p, u, ids)
    \/ \E p \in RaceProcs : createUserPicks_insert(p)
    \/ \E p \in RaceProcs : createUserPicks_count(p)
    \/ \E p \in RaceProcs : createUserPicks_findAuction(p)
    \/ \E p \in RaceProcs : createAuctionAction(p)

SpecPickRace == InitPickRace /\ [][NextPickRace]_vars

-----------------------------------------------------------------------------
(* Picks and trades, one request at a time: u1 and u2 hold their picks, an  *)
(* auction has a bid and a score has been awarded; u3 may still pick        *)

TradeTeams == {"c1", "c3", "c4"}

\* half a cent more than 0.02
Cash == {25}

TradePairs == {<<"u1", "u2">>}

\* the picks of u3: c3, c4 and f2 become contested, c1 is left to u1 and u2
ThirdUserLists == {<<"c2", "c3", "c4", "f2">>}

InitTrade ==
    /\ picks = ContestedPicks
    /\ auctions = <<NewAuction("c1"), NewAuction("c2")>>
    /\ bids = << [auctionId |-> 1, userId |-> "u2", amount |-> 10] >>
    /\ trades = <<>>
    /\ scores = [NoScores EXCEPT !["u1"] = Some(9)]
    /\ now = 0
    /\ proc = [p \in SeqProcs |-> Idle]

NextTrade ==
    \/ \E p \in SeqProcs :
          /\ Free(p)
          /\ \E pair \in TradePairs, it \in TradeTeams, rt \in TradeTeams, cash \in Cash :
                createTradeOffer_initiatorPick(p, pair[1], pair[2], it, rt, cash)
    \/ \E p \in SeqProcs : createTradeOffer_recipientPick(p)
    \/ \E p \in SeqProcs : createTradeOffer_insert(p)
    \/ \E p \in SeqProcs :
          /\ Free(p)
          /\ \E t \in 1..MaxTrades, accept \in BOOLEAN :
                respondToTradeOffer_read(p, t, accept)
    \/ \E p \in SeqProcs : respondToTradeOffer_reject(p)
    \/ \E p \in SeqProcs : respondToTradeOffer_updateInitiator(p)
    \/ \E p \in SeqProcs : respondToTradeOffer_updateRecipient(p)
    \/ \E p \in SeqProcs : respondToTradeOffer_commit(p)
    \/ \E p \in SeqProcs :
          /\ Free(p)
          /\ \E ids \in ThirdUserLists : createUserPicks_validate(p, "u3", ids)
    \/ \E p \in SeqProcs : createUserPicks_insert(p)
    \/ \E p \in SeqProcs : createUserPicks_count(p)
    \/ \E p \in SeqProcs : createUserPicks_findAuction(p)
    \/ \E p \in SeqProcs : createAuctionAction(p)

SpecTrade == InitTrade /\ [][NextTrade]_vars

-----------------------------------------------------------------------------
(* Claims on the pick submission *)

PicksOfUser(userId) == {i \in 1..Len(picks) : picks[i].userId = userId}

SeedOf(teamId) == teamsTable[CHOOSE i \in 1..Len(teamsTable) : teamsTable[i].id = teamId].seed

\* exactly 4 entries, all distinct, all known, 3 of seed 9-16 and 1 of seed 1-4
ValidPickSet(teamIds) ==
    /\ Len(teamIds) = 4
    /\ \A i, j \in 1..Len(teamIds) : i # j => teamIds[i] # teamIds[j]
    /\ \A i \in 1..Len(teamIds) : teamIds[i] \in TeamIds
    /\ Cardinality({i \in 1..Len(teamIds) : SeedOf(teamIds[i]) \in 9..16}) = 3
    /\ Cardinality({i \in 1..Len(teamIds) : SeedOf(teamIds[i]) \in 1..4}) = 1

\* C2: there is at most one Auction row per team, also when the detections
\* of pick submissions by different users interleave (the states in which
\* every user has committed at most one pick set)
C2_OneAuctionPerTeam ==
    (\A u \in Users : Cardinality(PicksOfUser(u)) <= 4)
    => \A a, b \in AuctionIds : a # b => auctions[a].teamId # auctions[b].teamId

\* C6: a user never has more than four Pick rows created by submitPicks
C6_PicksCommittedOnce ==
    \A u \in Users : Cardinality(PicksOfUser(u)) <= 4

\* C5: submitPicks by a user succeeds exactly when the list is a valid pick
\* set and the user has no Pick row; a success inserts the four rows of the
\* set, a failure inserts no row
C5_PicksAcceptedIff ==
    \A p \in DOMAIN proc :
        (Done(p, "submitPicks") /\ proc[p].call.userId \in Users)
        => LET u == proc[p].call.userId
               ids == proc[p].call.teamIds
           IN IF proc[p].isSuccess
              THEN /\ ValidPickSet(ids)
                   /\ \E s \in InitPickStores :
                         /\ \A i \in 1..Len(s.picks) : s.picks[i].userId # u
                         /\ Len(picks) = Len(s.picks) + 4
                         /\ SubSeq(picks, 1, Len(s.picks)) = s.picks
                         /\ {picks[i] : i \in Len(s.picks) + 1..Len(picks)}
                               = {[userId |-> u, teamId |-> ids[i],
                                   type |-> IF SeedOf(ids[i]) \in 9..16
                                            THEN "cinderella" ELSE "favorite"]
                                  : i \in 1..4}
              ELSE /\ \E s \in InitPickStores : picks = s.picks
                   /\ ~ValidPickSet(ids) \/ PicksOfUser(u) # {}

\* a valid set accepted for a user without picks, next to a user who has them
C5_Witness ==
    \E p \in DOMAIN proc :
        /\ Done(p, "submitPicks")
        /\ proc[p].isSuccess
        /\ proc[p].call.userId = "u3"
        /\ PicksOfUser("u1") # {}


-----------------------------------------------------------------------------
(* Claims on the trades *)

Quiescent == \A p \in DOMAIN proc : Free(p)

\* the initiator no longer holds the offered team or the recipient no longer
\* holds the requested team
Stale(t) ==
    \/ OwnedRows(picks, t.initiatorId, t.initiatorTeamId) = {}
    \/ OwnedRows(picks, t.recipientId, t.recipientTeamId) = {}

Accepting(p) ==
    /\ proc[p].op = "respondToTradeOffer"
    /\ proc[p].pc \in {"updateInitiator", "updateRecipient", "commitTrade"}

\* C3: an accept of an offer that has become stale returns a failure, leaves
\* the trade pending and changes the owner of no Pick row
C3_StaleAcceptFails ==
    [][\A p \in DOMAIN proc :
          (Accepting(p) /\ Stale(proc[p].trade))
          => /\ picks' = picks
             /\ trades' = trades
             /\ proc'[p].pc = "done" => ~proc'[p].isSuccess]_vars

\* C4: an accept of an offer whose ownership preconditions hold moves one
\* row of the initiator on the initiator's team to the recipient and one row
\* of the recipient on the recipient's team to the initiator, marks the
\* trade accepted and changes nothing else
C4_AcceptSwapsTwoRows ==
    [][\A p \in DOMAIN proc :
          (/\ proc[p].pc = "commitTrade"
           /\ proc'[p].pc = "done"
           /\ ~Stale(proc[p].trade))
          => LET t == proc[p].trade
             IN /\ \E i \in OwnedRows(picks, t.initiatorId, t.initiatorTeamId),
                      j \in OwnedRows(picks, t.recipientId, t.recipientTeamId) :
                      /\ i # j
                      /\ picks' = [picks EXCEPT ![i].userId = t.recipientId,
                                                ![j].userId = t.initiatorId]
                /\ trades' = SetStatus(proc[p].call.tradeId, "accepted")
                /\ UNCHANGED <<auctions, bids, scores>>]_vars

\* C7: every user holds no Pick row or exactly four, 3 cinderellas and 1 favorite
C7_CompletePickSets ==
    \A u \in Users :
        \/ PicksOfUser(u) = {}
        \/ /\ Cardinality({i \in PicksOfUser(u) : picks[i].type = "cinderella"}) = 3
           /\ Cardinality({i \in PicksOfUser(u) : picks[i].type = "favorite"}) = 1

Holders(teamId) == {picks[i].userId : i \in {j \in 1..Len(picks) : picks[j].teamId = teamId}}

CreatedAsScheduled ==
    \A a \in AuctionIds :
        /\ auctions[a].status = "scheduled"
        /\ auctions[a].winnerUserId = None
        /\ auctions[a].finalBidAmount = None
        /\ PickCount(auctions[a].teamId) >= 2

\* C8 as stated: in every quiescent state a team has an auction exactly when
\* at least two distinct users hold a Pick on it
C8_AuctionIffTwoHolders ==
    /\ CreatedAsScheduled
    /\ Quiescent => \A t \in TeamIds : ExistingAuction(t) <=> Cardinality(Holders(t)) >= 2

\* C8 as amended: in every quiescent state a team has an auction exactly when
\* at least two Pick rows reference it; an auction exists only for a team
\* with at least two Pick rows and is created scheduled, with no winner and
\* no final amount
C8_AuctionIffTwoPickRows ==
    /\ CreatedAsScheduled
    /\ Quiescent => \A t \in TeamIds : ExistingAuction(t) <=> PickCount(t) >= 2

\* u3 has picked and its detection has created auctions; an accepted trade
\* has left a team that has an auction with a single holder
C8_Witness ==
    /\ Quiescent
    /\ PicksOfUser("u3") # {}
    /\ Len(auctions) > 2
    /\ \E t \in TradeIds : trades[t].status = "accepted"
    /\ \E t \in TeamIds : ExistingAuction(t) /\ Cardinality(Holders(t)) = 1


-----------------------------------------------------------------------------
(* Claims on the trade offer and on the response to it *)

Holds(userId, teamId) == OwnedRows(picks, userId, teamId) # {}

\* the Trade row a call describes, with the cash amount cashAmount
OfferRow(call, cashAmount) ==
    [initiatorId |-> call.initiatorId, recipientId |-> call.recipientId,
     initiatorTeamId |-> call.initiatorTeamId, recipientTeamId |-> call.recipientTeamId,
     cashAmount |-> cashAmount, status |-> "pending"]

\* C14: a createTradeOffer returns a failure and creates no Trade row unless
\* the initiator holds a Pick on the initiator's team and the recipient holds
\* a Pick on the recipient's team
C14_OfferNeedsOwnership ==
    [][/\ \A p \in DOMAIN proc :
             (/\ Returns(p, "createTradeOffer")
              /\ LET c == proc'[p].call
                 IN ~(/\ Holds(c.initiatorId, c.initiatorTeamId)
                      /\ Holds(c.recipientId, c.recipientTeamId)))
             => /\ ~proc'[p].isSuccess
                /\ trades' = trades
       /\ trades' # trades /\ Len(trades') > Len(trades) =>
             \E p \in DOMAIN proc :
                 Returns(p, "createTradeOffer") /\ proc'[p].isSuccess]_vars

\* an offer was refused because the recipient does not hold the team asked for
C14_Witness ==
    \E p \in DOMAIN proc :
        /\ Done(p, "createTradeOffer")
        /\ ~proc[p].isSuccess
        /\ Holds(proc[p].call.initiatorId, proc[p].call.initiatorTeamId)
        /\ ~Holds(proc[p].call.recipientId, proc[p].call.recipientTeamId)

\* C15: a successful createTradeOffer creates exactly one Trade row, pending,
\* with the given parties, teams and cash amount, and changes no other row
C15_OfferRecordsGivenCash ==
    [][\A p \in DOMAIN proc :
          (Returns(p, "createTradeOffer") /\ proc'[p].isSuccess)
          => /\ trades' = Append(trades, OfferRow(proc'[p].call, proc'[p].call.cashAmount))
             /\ UNCHANGED <<picks, auctions, bids, scores>>]_vars

\* C15, amended: the row records the cash amount at the scale of its column,
\* two decimals
C15_OfferRecordsCashToTheCent ==
    [][\A p \in DOMAIN proc :
          /\ (Returns(p, "createTradeOffer") /\ proc'[p].isSuccess)
             => /\ trades' = Append(trades,
                        OfferRow(proc'[p].call, ToNumeric(proc'[p].call.cashAmount)))
                /\ UNCHANGED <<picks, auctions, bids, scores>>
          /\ (Starts(p, "createTradeOffer") \/ proc[p].pc = "recipientPick")
             => store' = store]_vars

\* an offer of 0.025 was created and its row holds 0.03, next to an earlier
\* offer
C15_Witness ==
    \E p \in DOMAIN proc :
        /\ Done(p, "createTradeOffer")
        /\ proc[p].isSuccess
        /\ Len(trades) = 2
        /\ proc[p].call.cashAmount = 25
        /\ trades[2] = OfferRow(proc[p].call, 30)

\* C16: a respondToTradeOffer on a trade that does not exist or is not
\* pending returns a failure and changes nothing; a trade that is not pending
\* keeps its status and is not applied to the picks again
C16_TerminalTradeIsFinal ==
    [][/\ \A p \in DOMAIN proc :
             (/\ Starts(p, "respondToTradeOffer")
              /\ LET t == proc'[p].call.tradeId
                 IN t \in TradeIds => trades[t].status # "pending")
             => /\ proc'[p].pc = "done"
                /\ ~proc'[p].isSuccess
                /\ store' = store
       /\ \A t \in TradeIds : trades[t].status # "pending" => trades'[t] = trades[t]
       /\ \A p \in DOMAIN proc :
             (Accepting(p) /\ picks' # picks)
             => trades[proc[p].call.tradeId].status = "pending"]_vars

\* an accept of a trade that was accepted before was refused
C16_Witness ==
    \E p \in DOMAIN proc :
        /\ Done(p, "respondToTradeOffer")
        /\ ~proc[p].isSuccess
        /\ proc[p].call.accept
        /\ proc[p].call.tradeId \in TradeIds
        /\ trades[proc[p].call.tradeId].status = "accepted"

\* C17: a reject of a pending trade sets the status of that trade to
\* rejected and changes nothing else
C17_RejectOnlySetsStatus ==
    [][\A p \in DOMAIN proc :
          /\ (/\ Returns(p, "respondToTradeOffer")
              /\ ~proc'[p].call.accept
              /\ proc'[p].call.tradeId \in TradeIds
              /\ trades[proc'[p].call.tradeId].status = "pending")
             => /\ proc'[p].isSuccess
                /\ trades' = [trades EXCEPT ![proc'[p].call.tradeId].status = "rejected"]
                /\ UNCHANGED <<picks, auctions, bids, scores>>
          /\ Starts(p, "respondToTradeOffer") => store' = store]_vars

\* a trade was rejected while another trade is accepted
C17_Witness ==
    \E p \in DOMAIN proc :
        /\ Done(p, "respondToTradeOffer")
        /\ proc[p].isSuccess
        /\ ~proc[p].call.accept
        /\ trades[proc[p].call.tradeId].status = "rejected"
        /\ \E t \in TradeIds : trades[t].status = "accepted"



-----------------------------------------------------------------------------
(* Responses whose statements interleave: u1, u2 and u3 hold their picks    *)
(* and u1 has offered its pick on c3 to u2 and to u3, each for their c4     *)

ThreeUserPicks == ContestedPicks \o PicksOf("u3", <<"c2", "c3", "c4", "f2">>)

SameOfferTwice ==
    << NewTrade(TradeCall("u1", "u2", "c3", "c4", 0)),
       NewTrade(TradeCall("u1", "u3", "c3", "c4", 0)) >>

InitAcceptRace ==
    /\ picks = ThreeUserPicks
    /\ auctions = << NewAuction("c1"), NewAuction("c2"), NewAuction("c3"),
                     NewAuction("c4"), NewAuction("f2") >>
    /\ bids = <<>>
    /\ trades = SameOfferTwice
    /\ scores = NoScores
    /\ now = 0
    /\ proc = [p \in RaceProcs |-> Idle]

NextAcceptRace ==
    \/ \E p \in RaceProcs :
          /\ Free(p)
          /\ \E t \in TradeIds, accept \in BOOLEAN : respondToTradeOffer_read(p, t, accept)
    \/ \E p \in RaceProcs : respondToTradeOffer_reject(p)
    \/ \E p \in RaceProcs : respondToTradeOffer_updateInitiator(p)
    \/ \E p \in RaceProcs : respondToTradeOffer_updateRecipient(p)
    \/ \E p \in RaceProcs : respondToTradeOffer_commit(p)

SpecAcceptRace == InitAcceptRace /\ [][NextAcceptRace]_vars

\* C18: of two offers of the same pick (same initiator, same initiator team)
\* to different recipients at most one becomes accepted, and at most one of
\* the recipients gives up the Pick row asked of them
C18_NoDoubleSpend ==
    \A t1, t2 \in TradeIds :
        (/\ t1 # t2
         /\ trades[t1].initiatorId = trades[t2].initiatorId
         /\ trades[t1].initiatorTeamId = trades[t2].initiatorTeamId
         /\ trades[t1].recipientId # trades[t2].recipientId)
        => /\ ~(trades[t1].status = "accepted" /\ trades[t2].status = "accepted")
           /\ \/ Holds(trades[t1].recipientId, trades[t1].recipientTeamId)
              \/ Holds(trades[t2].recipientId, trades[t2].recipientTeamId)



-----------------------------------------------------------------------------
(* updateScoresAction: a read of the team, a read of the picks, then per    *)
(* pick row an insert and an update, each statement committed on its own    *)

\* a call starts only while every score is at most MaxScore
MaxScore == 20

UpperCase == <<"A", "B", "C", "D", "E", "F", "G", "H", "I", "J", "K", "L", "M", "N", "O", "P", "Q", "R", "S", "T", "U", "V", "W", "X", "Y", "Z">>
LowerCase == <<"a", "b", "c", "d", "e", "f", "g", "h", "i", "j", "k", "l", "m", "n", "o", "p", "q", "r", "s", "t", "u", "v", "w", "x", "y", "z">>

\* round.toLowerCase(), a round name being the sequence of its characters
ToLowerCase(round) ==
    [i \in 1..Len(round) |->
        IF \E k \in 1..Len(UpperCase) : UpperCase[k] = round[i]
        THEN LowerCase[CHOOSE k \in 1..Len(UpperCase) : UpperCase[k] = round[i]]
        ELSE round[i]]

\* the case labels of the switch
SWEET_16 == <<"s", "w", "e", "e", "t", " ", "1", "6">>
ELITE_8 == <<"e", "l", "i", "t", "e", " ", "8">>
FINAL_4 == <<"f", "i", "n", "a", "l", " ", "4">>
CHAMPIONSHIP == <<"c", "h", "a", "m", "p", "i", "o", "n", "s", "h", "i", "p">>

\* a switch on the round name as given
MultiplierCaseSensitive(round) ==
    CASE round = SWEET_16 -> 2
      [] round = ELITE_8 -> 3
      [] round = FINAL_4 -> 4
      [] round = CHAMPIONSHIP -> 5
      [] OTHER -> 1

\* switch (round.toLowerCase())
Multiplier(round) ==
    CASE ToLowerCase(round) = SWEET_16 -> 2
      [] ToLowerCase(round) = ELITE_8 -> 3
      [] ToLowerCase(round) = FINAL_4 -> 4
      [] ToLowerCase(round) = CHAMPIONSHIP -> 5
      [] OTHER -> 1

\* FAVORITE_SEEDS.includes(team.seed) ? 5 : team.seed
BasePoints(seed) == IF seed \in FAVORITE_SEEDS THEN 5 ELSE seed

\* a lookup that falls back to the first team when no team matches
FindTeamOrFirst(teamId) ==
    IF teamId \in TeamIds
    THEN Some(teamsTable[CHOOSE i \in 1..Len(teamsTable) : teamsTable[i].id = teamId])
    ELSE Some(teamsTable[1])

\* db.query.teams.findFirst({ where: eq(teamsTable.id, winningTeamId) })
FindTeam(teamId) ==
    IF teamId \in TeamIds
    THEN Some(teamsTable[CHOOSE i \in 1..Len(teamsTable) : teamsTable[i].id = teamId])
    ELSE None

\* db.query.picks.findMany({ where: eq(picksTable.teamId, winningTeamId) }):
\* the user of every matching row
RelevantPicks(teamId) ==
    LET rows == SelectSeq(picks, LAMBDA r : r.teamId = teamId)
    IN [i \in 1..Len(rows) |-> rows[i].userId]

ScoreCall(winningTeamId, round) ==
    [op |-> "updateScores", winningTeamId |-> winningTeamId, round |-> round]

ScoreValue(u) == IF scores[u] = None THEN 0 ELSE scores[u][1]

\* the result of a call that went through
ScoresUpdated(r) ==
    [op |-> "updateScores", pc |-> "done", call |-> r.call, isSuccess |-> TRUE,
     message |-> "Scores updated", pointsAwarded |-> r.pointsAwarded]

\* 1) - 3) fetch the winning team and compute the points
updateScores_findTeam(p, winningTeamId, round) ==
    /\ Free(p)
    /\ \A u \in Users : ScoreValue(u) <= MaxScore
    /\ LET call == ScoreCall(winningTeamId, round)
           team == FindTeam(winningTeamId)
       IN proc' = [proc EXCEPT ![p] =
              IF team = None THEN Return(call, FALSE, "Winning team not found")
              ELSE [op |-> "updateScores", pc |-> "findPicks", call |-> call,
                    pointsAwarded |-> BasePoints(team[1].seed) * Multiplier(round)]]
    /\ UNCHANGED <<store, now>>

\* 4) find the picks of the winning team
updateScores_findPicks(p) ==
    /\ proc[p].pc = "findPicks"
    /\ LET relevantPicks == RelevantPicks(proc[p].call.winningTeamId)
       IN proc' = [proc EXCEPT ![p] =
              IF relevantPicks = <<>> THEN ScoresUpdated(proc[p])
              ELSE [op |-> "updateScores", pc |-> "ensureRow", call |-> proc[p].call,
                    pointsAwarded |-> proc[p].pointsAwarded,
                    relevantPicks |-> relevantPicks, k |-> 1]]
    /\ UNCHANGED <<store, now>>

\* 5) insert the score row of the pick's user, onConflictDoNothing
updateScores_ensureRow(p) ==
    /\ proc[p].pc = "ensureRow"
    /\ LET u == proc[p].relevantPicks[proc[p].k]
       IN scores' = IF scores[u] = None THEN [scores EXCEPT ![u] = Some(0)] ELSE scores
    /\ proc' = [proc EXCEPT ![p].pc = "increment"]
    /\ UNCHANGED <<picks, auctions, bids, trades, now>>

\* an update that writes the points awarded over the score it finds
updateScores_incrementOverwriting(p) ==
    /\ proc[p].pc = "increment"
    /\ LET r == proc[p]
           u == r.relevantPicks[r.k]
       IN /\ scores' = IF scores[u] = None THEN scores
                       ELSE [scores EXCEPT ![u] = Some(r.pointsAwarded)]
          /\ proc' = [proc EXCEPT ![p] =
                 IF r.k = Len(r.relevantPicks) THEN ScoresUpdated(r)
                 ELSE [r EXCEPT !.pc = "ensureRow", !.k = r.k + 1]]
    /\ UNCHANGED <<picks, auctions, bids, trades, now>>

\* SET current_score = current_score + pointsAwarded WHERE user_id = the
\* pick's user; after the last pick the call returns
updateScores_increment(p) ==
    /\ proc[p].pc = "increment"
    /\ LET r == proc[p]
           u == r.relevantPicks[r.k]
       IN /\ scores' = IF scores[u] = None THEN scores
                       ELSE [scores EXCEPT ![u] = Some(scores[u][1] + r.pointsAwarded)]
          /\ proc' = [proc EXCEPT ![p] =
                 IF r.k = Len(r.relevantPicks) THEN ScoresUpdated(r)
                 ELSE [r EXCEPT !.pc = "ensureRow", !.k = r.k + 1]]
    /\ UNCHANGED <<picks, auctions, bids, trades, now>>



-----------------------------------------------------------------------------
(* Round results, one request at a time, on three stores the program        *)
(* reaches: the picks as submitted, the picks after u1's c3 was traded for  *)
(* u2's c4, and the picks after u1's c1 was traded for u2's c1              *)

Accepted(call) == [NewTrade(call) EXCEPT !.status = "accepted"]

InitScoreStores ==
    { [picks |-> ContestedPicks, trades |-> <<>>],
      [picks |-> [ContestedPicks EXCEPT ![3].userId = "u2", ![7].userId = "u1"],
       trades |-> << Accepted(TradeCall("u1", "u2", "c3", "c4", 0)) >>],
      [picks |-> [ContestedPicks EXCEPT ![5].userId = "u1"],
       trades |-> << Accepted(TradeCall("u1", "u2", "c1", "c1", 0)) >>] }

\* a 9-seed, a 13-seed, a 16-seed, two favorites and an unknown identifier
ScoreTeams == {"c1", "c2", "c3", "f1", "f2", UnknownTeam}

Rounds ==
    { <<"r", "o", "u", "n", "d", " ", "o", "f", " ", "6", "4">>,
      <<"s", "w", "e", "e", "t", " ", "1", "6">>,
      <<"S", "w", "e", "e", "t", " ", "1", "6">>,
      <<"E", "L", "I", "T", "E", " ", "8">>,
      <<"f", "i", "n", "a", "l", " ", "4">>,
      <<"F", "i", "n", "a", "l", " ", "4">>,
      <<"f", "i", "n", "a", "l", " ", "f", "o", "u", "r">>,
      <<"C", "h", "a", "m", "p", "i", "o", "n", "s", "h", "i", "p">> }

InitScore ==
    /\ \E st \in InitScoreStores : picks = st.picks /\ trades = st.trades
    /\ auctions = <<NewAuction("c1"), NewAuction("c2")>>
    /\ bids = <<>>
    /\ scores = NoScores
    /\ now = 0
    /\ proc = [p \in SeqProcs |-> Idle]

NextScore ==
    \/ \E p \in SeqProcs :
          /\ Free(p)
          /\ \E t \in ScoreTeams, round \in Rounds : updateScores_findTeam(p, t, round)
    \/ \E p \in SeqProcs : updateScores_findPicks(p)
    \/ \E p \in SeqProcs : updateScores_ensureRow(p)
    \/ \E p \in SeqProcs : updateScores_increment(p)

SpecScore == InitScore /\ [][NextScore]_vars

-----------------------------------------------------------------------------
(* One trade offer, on each of the three stores above and with cash amounts *)
(* of 0, of whole cents and of fractions of a cent                          *)

OfferCash == {-10, 0, 20, 24, 25}

InitOffer ==
    /\ \E st \in InitScoreStores : picks = st.picks /\ trades = st.trades
    /\ auctions = <<NewAuction("c1"), NewAuction("c2")>>
    /\ bids = <<>>
    /\ scores = NoScores
    /\ now = 0
    /\ proc = [p \in SeqProcs |-> Idle]

NextOffer ==
    \/ \E p \in SeqProcs :
          /\ proc[p].pc = "idle"
          /\ \E pair \in TradePairs, it \in TradeTeams, rt \in TradeTeams, cash \in OfferCash :
                createTradeOffer_initiatorPick(p, pair[1], pair[2], it, rt, cash)
    \/ \E p \in SeqProcs : createTradeOffer_recipientPick(p)
    \/ \E p \in SeqProcs : createTradeOffer_insert(p)

SpecOffer == InitOffer /\ [][NextOffer]_vars

-----------------------------------------------------------------------------
(* Claims on the scores *)

\* the round names that are, letter case aside, the name of a late round
NamedRound(round, name) == ToLowerCase(round) = name

\* C19: the points awarded are base times multiplier: base 5 for seeds 1-4
\* and the seed for seeds 9-16, multiplier 2, 3, 4, 5 for "sweet 16",
\* "elite 8", "final 4", "championship" in any letter case and 1 otherwise
C19_PointsAwarded ==
    \A p \in DOMAIN proc :
        (Done(p, "updateScores") /\ proc[p].isSuccess)
        => LET seed == SeedOf(proc[p].call.winningTeamId)
               round == proc[p].call.round
               base == IF seed \in 1..4 THEN 5 ELSE seed
               multiplier == IF NamedRound(round, SWEET_16) THEN 2
                             ELSE IF NamedRound(round, ELITE_8) THEN 3
                             ELSE IF NamedRound(round, FINAL_4) THEN 4
                             ELSE IF NamedRound(round, CHAMPIONSHIP) THEN 5
                             ELSE 1
           IN (seed \in 1..4 \/ seed \in 9..16)
              => proc[p].pointsAwarded = base * multiplier

\* a 13-seed won "Final 4": 52 points went to its holders
C19_Witness ==
    \E p \in DOMAIN proc :
        /\ Done(p, "updateScores")
        /\ proc[p].isSuccess
        /\ proc[p].call.winningTeamId = "c2"
        /\ proc[p].call.round = <<"F", "i", "n", "a", "l", " ", "4">>
        /\ proc[p].pointsAwarded = 52
        /\ scores["u2"] = Some(52)

\* C20: one updateScores call adds the points awarded to the score of every
\* user who holds a Pick on the team, once per user whatever the number of
\* rows the user holds, on a row created at zero if absent, and changes no
\* other score
C20_OncePerHolder ==
    [][\A p \in DOMAIN proc :
          proc[p].pc = "increment" =>
              LET r == proc[p]
                  u == r.relevantPicks[r.k]
              IN /\ Holds(u, r.call.winningTeamId)
                 /\ \A v \in Users \ {u} : scores'[v] = scores[v]
                 /\ scores[u] # None
                 /\ IF \E j \in 1..(r.k - 1) : r.relevantPicks[j] = u
                    THEN scores'[u] = scores[u]
                    ELSE scores'[u] = Some(scores[u][1] + r.pointsAwarded)]_vars



-----------------------------------------------------------------------------
(* Claims on the bids that are accepted *)

\* the leading bid of an auction, zero without bids
Leading(a) == IF BidsOf(a) = {} THEN 0 ELSE Max({bids[i].amount : i \in BidsOf(a)})

\* C29: a bid above the leading bid is accepted on a scheduled auction as on
\* an open one (the end time permitting), and a bid is refused on status
\* grounds on a closed auction only
C29_ScheduledTakesBids ==
    [][\A p \in DOMAIN proc :
          Returns(p, "placeBid") =>
              LET a == proc'[p].call.auctionId
              IN /\ (/\ a \in AuctionIds
                     /\ auctions[a].status \in {"scheduled", "open"}
                     /\ ~Ended(a)
                     /\ proc'[p].call.amount > Leading(a))
                    => proc'[p].isSuccess
                 /\ (/\ ~proc'[p].isSuccess
                     /\ proc'[p].message = "Cannot place a bid on an auction with this status.")
                    => (a \in AuctionIds /\ auctions[a].status = "closed")]_vars

\* a bid on a scheduled auction was accepted, as was one on an open auction
C29_Witness ==
    \E p \in DOMAIN proc :
        /\ Done(p, "placeBid")
        /\ proc[p].isSuccess
        /\ auctions[proc[p].call.auctionId].status = "scheduled"
        /\ \E a \in AuctionIds :
              /\ auctions[a].status = "open"
              /\ BidsOf(a) # {}

\* C30: a successful placeBid appends one Bid row with the given auction,
\* user and amount and changes nothing else
C30_BidRecordsGivenAmount ==
    [][\A p \in DOMAIN proc :
          (Returns(p, "placeBid") /\ proc'[p].isSuccess)
          => /\ bids' = Append(bids, [auctionId |-> proc'[p].call.auctionId,
                                      userId |-> proc'[p].call.userId,
                                      amount |-> proc'[p].call.amount])
             /\ UNCHANGED <<picks, auctions, trades, scores>>]_vars

\* C30, amended: the row carries the amount at the scale of its column, two
\* decimals
C30_BidRecordsAmountToTheCent ==
    [][\A p \in DOMAIN proc :
          /\ (Returns(p, "placeBid") /\ proc'[p].isSuccess)
             => /\ bids' = Append(bids, [auctionId |-> proc'[p].call.auctionId,
                                         userId |-> proc'[p].call.userId,
                                         amount |-> ToNumeric(proc'[p].call.amount)])
                /\ UNCHANGED <<picks, auctions, trades, scores>>
          /\ (proc'[p].op = "placeBid" /\ proc'[p] # proc[p] /\ ~proc'[p].pc = "done")
             => store' = store]_vars

\* a bid of 0.014 was accepted after a bid on the other auction and its row
\* holds 0.01
C30_Witness ==
    \E p \in DOMAIN proc :
        /\ Done(p, "placeBid")
        /\ proc[p].isSuccess
        /\ proc[p].call.amount = 14
        /\ Len(bids) = 2
        /\ bids[2] = [auctionId |-> proc[p].call.auctionId,
                      userId |-> proc[p].call.userId, amount |-> 10]
        /\ bids[1].auctionId # bids[2].auctionId



-----------------------------------------------------------------------------
(* Persistence failures: a statement throws and the catch block of the      *)
(* action returns its failure result.  What was committed before stays, an  *)
(* open transaction is rolled back.                                         *)

\* catch of createUserPicksAction: the insert transaction, a count or a
\* findFirst threw
createUserPicks_fail(p) ==
    /\ proc[p].pc \in {"insert", "count", "findAuction"}
    /\ proc' = [proc EXCEPT ![p] = Return(proc[p].call, FALSE, "Failed to create user picks.")]
    /\ UNCHANGED <<store, now>>

\* catch of createAuctionAction: the insert threw; the failure result goes to
\* createUserPicksAction, which does not look at it
createAuctionAction_fail(p) ==
    /\ proc[p].pc = "createAuction"
    /\ proc' = [proc EXCEPT ![p] = NextTeam(proc[p])]
    /\ UNCHANGED <<store, now>>

\* catch of placeBidAction: a statement of the transaction threw
placeBid_fail(p) ==
    /\ proc[p].pc \in {"readMax", "insertBid"}
    /\ proc' = [proc EXCEPT ![p] = Return(proc[p].call, FALSE, "Failed to place bid")]
    /\ UNCHANGED <<store, now>>

\* catch of closeAuctionAction: the update threw
closeAuction_fail(p) ==
    /\ proc[p].pc = "update"
    /\ proc' = [proc EXCEPT ![p] = Return(proc[p].call, FALSE, "Failed to close auction")]
    /\ UNCHANGED <<store, now>>

\* catch of createTradeOfferAction
createTradeOffer_fail(p) ==
    /\ proc[p].pc \in {"recipientPick", "insertTrade"}
    /\ proc' = [proc EXCEPT ![p] = Return(proc[p].call, FALSE, "Failed to create trade offer")]
    /\ UNCHANGED <<store, now>>

\* catch of respondToTradeOfferAction: the reject update threw, or a
\* statement of the swap threw and its transaction is rolled back
respondToTradeOffer_fail(p) ==
    /\ proc[p].pc \in {"reject", "updateInitiator", "updateRecipient", "commitTrade"}
    /\ proc' = [proc EXCEPT ![p] =
           Return(proc[p].call, FALSE, "Failed to respond to trade offer")]
    /\ UNCHANGED <<store, now>>

\* catch of updateScoresAction: the read of the picks, an insert or an
\* update of the loop threw; the statements before it are committed
updateScores_fail(p) ==
    /\ proc[p].pc \in {"findPicks", "ensureRow", "increment"}
    /\ proc' = [proc EXCEPT ![p] = Return(proc[p].call, FALSE, "Failed to update scores")]
    /\ UNCHANGED <<store, now>>

-----------------------------------------------------------------------------
(* Every operation, one request at a time, with persistence failures        *)

EngineOfferTeams == {"c3"}
EngineAmounts == {10}
EnginePickLists == {<<"c1", "c2", "c3", "f1">>}

InitEngine ==
    /\ picks = ContestedPicks
    /\ auctions = <<NewAuction("c1"), NewAuction("c2")>>
    /\ bids = <<>>
    /\ trades = <<>>
    /\ scores = NoScores
    /\ now = 0
    /\ proc = [p \in SeqProcs |-> Idle]

NextEngine ==
    \/ \E p \in SeqProcs :
          /\ Free(p)
          /\ \E ids \in EnginePickLists : createUserPicks_validate(p, "u3", ids)
    \/ \E p \in SeqProcs : createUserPicks_insert(p)
    \/ \E p \in SeqProcs : createUserPicks_count(p)
    \/ \E p \in SeqProcs : createUserPicks_findAuction(p)
    \/ \E p \in SeqProcs : createAuctionAction(p)
    \/ \E p \in SeqProcs : createUserPicks_fail(p)
    \/ \E p \in SeqProcs : createAuctionAction_fail(p)
    \/ \E p \in SeqProcs :
          /\ Free(p)
          /\ \E a \in RaceAuctions, amt \in EngineAmounts : placeBid_readAuction(p, a, "u1", amt)
    \/ \E p \in SeqProcs : placeBid_readMax(p)
    \/ \E p \in SeqProcs : placeBid_insert(p)
    \/ \E p \in SeqProcs : placeBid_fail(p)
    \/ \E p \in SeqProcs, a \in RaceAuctions : closeAuction_readTop(p, a)
    \/ \E p \in SeqProcs : closeAuction_update(p)
    \/ \E p \in SeqProcs : closeAuction_fail(p)
    \/ \E p \in SeqProcs :
          /\ Free(p)
          /\ \E it \in EngineOfferTeams, cash \in Cash :
                createTradeOffer_initiatorPick(p, "u1", "u2", it, "c1", cash)
    \/ \E p \in SeqProcs : createTradeOffer_recipientPick(p)
    \/ \E p \in SeqProcs : createTradeOffer_insert(p)
    \/ \E p \in SeqProcs : createTradeOffer_fail(p)
    \/ \E p \in SeqProcs :
          /\ Free(p)
          /\ \E t \in 1..MaxTrades, accept \in BOOLEAN :
                respondToTradeOffer_read(p, t, accept)
    \/ \E p \in SeqProcs : respondToTradeOffer_reject(p)
    \/ \E p \in SeqProcs : respondToTradeOffer_updateInitiator(p)
    \/ \E p \in SeqProcs : respondToTradeOffer_updateRecipient(p)
    \/ \E p \in SeqProcs : respondToTradeOffer_commit(p)
    \/ \E p \in SeqProcs : respondToTradeOffer_fail(p)
    \/ \E p \in SeqProcs : updateScores_findTeam(p, "c3", SWEET_16)
    \/ \E p \in SeqProcs : updateScores_findPicks(p)
    \/ \E p \in SeqProcs : updateScores_ensureRow(p)
    \/ \E p \in SeqProcs : updateScores_increment(p)
    \/ \E p \in SeqProcs : updateScores_fail(p)

SpecEngine == InitEngine /\ [][NextEngine]_vars



-----------------------------------------------------------------------------
(* Claims on every operation *)

\* this step is a statement of a request for op
Runs(p, op) ==
    /\ proc'[p] # proc[p]
    /\ (IF Free(p) THEN proc'[p].op ELSE proc[p].op) = op

CaughtMessages ==
    { "Failed to create user picks.", "Failed to place bid", "Failed to close auction",
      "Failed to create trade offer", "Failed to respond to trade offer",
      "Failed to update scores" }

\* C27: a request never ends in an exception, and a statement of a request
\* that fails ends the request with a result whose success flag is false;
\* an insert of an Auction row that inserts nothing is a failed statement
C27_FailuresAreResults ==
    [][\A p \in DOMAIN proc :
          /\ proc'[p].pc # "thrown"
          /\ proc'[p].pc = "done" /\ proc'[p].message \in CaughtMessages
             => ~proc'[p].isSuccess
          /\ proc[p].pc = "createAuction" /\ proc'[p] # proc[p] /\ auctions' = auctions
             => proc'[p].pc = "done" /\ ~proc'[p].isSuccess]_vars

\* C28: a Pick row is never deleted and never changes its team: the number
\* of Pick rows of a team never decreases, and only a pick submission
\* changes it
C28_PickRowsStay ==
    [][/\ Len(picks') >= Len(picks)
       /\ \A i \in 1..Len(picks) : picks'[i].teamId = picks[i].teamId
       /\ \A t \in TeamIds :
             /\ PickCount(t)' >= PickCount(t)
             /\ PickCount(t)' # PickCount(t)
                => \E p \in DOMAIN proc : Runs(p, "submitPicks")]_vars

\* rows have changed owner in a trade, an auction is closed and points were
\* awarded, and every team has the Pick rows it had
C28_Witness ==
    /\ \E t \in TradeIds : trades[t].status = "accepted"
    /\ picks # ContestedPicks
    /\ Len(picks) = Len(ContestedPicks)
    /\ \A i \in 1..Len(picks) : picks[i].teamId = ContestedPicks[i].teamId
    /\ auctions[1].status = "closed"
    /\ bids # <<>>
    /\ \E u \in Users : scores[u] = Some(32)



-----------------------------------------------------------------------------
(* The same round result applied twice: two requests, the second starts     *)
(* when the first has returned                                              *)

InitScoreTwice ==
    /\ \E st \in InitScoreStores : picks = st.picks /\ trades = st.trades
    /\ auctions = <<NewAuction("c1"), NewAuction("c2")>>
    /\ bids = <<>>
    /\ scores = NoScores
    /\ now = 0
    /\ proc = [p \in RaceProcs |-> Idle]

NextScoreTwice ==
    \/ \E p \in RaceProcs :
          /\ proc[p].pc = "idle"
          /\ \A q \in RaceProcs : Free(q)
          /\ \E t \in ScoreTeams, round \in Rounds : updateScores_findTeam(p, t, round)
    \/ \E p \in RaceProcs : updateScores_findPicks(p)
    \/ \E p \in RaceProcs : updateScores_ensureRow(p)
    \/ \E p \in RaceProcs : updateScores_increment(p)

SpecScoreTwice == InitScoreTwice /\ [][NextScoreTwice]_vars

\* C21: updateScores is not idempotent: after two calls with the same team
\* and round, every holder of a Pick on the team has the points awarded
\* twice, and nobody else has any
C21_TwiceAddsTwice ==
    (/\ Done(1, "updateScores") /\ proc[1].isSuccess
     /\ Done(2, "updateScores") /\ proc[2].isSuccess
     /\ proc[1].call = proc[2].call)
    => \A u \in Users :
          ScoreValue(u) = IF Holds(u, proc[1].call.winningTeamId)
                          THEN 2 * proc[1].pointsAwarded
                          ELSE 0


-----------------------------------------------------------------------------
(* One round result whose statements may fail *)

NextScoreFail ==
    \/ \E p \in SeqProcs :
          /\ proc[p].pc = "idle"
          /\ \E t \in ScoreTeams, round \in Rounds : updateScores_findTeam(p, t, round)
    \/ \E p \in SeqProcs : updateScores_findPicks(p)
    \/ \E p \in SeqProcs : updateScores_ensureRow(p)
    \/ \E p \in SeqProcs : updateScores_increment(p)
    \/ \E p \in SeqProcs : updateScores_fail(p)

SpecScoreFail == InitScore /\ [][NextScoreFail]_vars

\* C23: an updateScores call that returns a failure leaves every user's
\* score as it was before the call
C23_FailedCallChangesNoScore ==
    \A p \in DOMAIN proc :
        (Done(p, "updateScores") /\ ~proc[p].isSuccess)
        => \A u \in Users : ScoreValue(u) = 0


-----------------------------------------------------------------------------
(* One pick submission whose statements may fail *)

NextPickFail ==
    \/ \E p \in SeqProcs :
          /\ proc[p].pc = "idle"
          /\ \E u \in Users \cup {NoUserId}, ids \in PickLists :
                createUserPicks_validate(p, u, ids)
    \/ \E p \in SeqProcs : createUserPicks_insert(p)
    \/ \E p \in SeqProcs : createUserPicks_count(p)
    \/ \E p \in SeqProcs : createUserPicks_findAuction(p)
    \/ \E p \in SeqProcs : createAuctionAction(p)
    \/ \E p \in SeqProcs : createAuctionAction_fail(p)
    \/ \E p \in SeqProcs : createUserPicks_fail(p)

SpecPickFail == InitPickInput /\ [][NextPickFail]_vars

\* C24: after a pick submission that returned a failure the Pick rows are
\* the rows from before the call, and after one that returned success they
\* are those rows and the four rows of the call
C24_PicksAllOrNothing ==
    \A p \in DOMAIN proc :
        Done(p, "submitPicks") =>
            \E st \in InitPickStores :
                picks = IF proc[p].isSuccess
                        THEN st.picks \o PicksOf(proc[p].call.userId, proc[p].call.teamIds)
                        ELSE st.picks


-----------------------------------------------------------------------------
(* Responses to two pending offers by two requests at a time.  The offers   *)
(* are the two offers of u1's c3 above, or two crossed offers: u1's c3 for  *)
(* u2's c4 and u2's c4 for u1's c3.  An UPDATE waits for the rows another   *)
(* open transaction has updated; when two transactions wait for each other  *)
(* the database aborts one, and the catch block returns the failure.        *)

CrossedOffers ==
    << NewTrade(TradeCall("u1", "u2", "c3", "c4", 0)),
       NewTrade(TradeCall("u2", "u1", "c4", "c3", 0)) >>

SwapStores ==
    { [picks |-> ThreeUserPicks, trades |-> SameOfferTwice],
      [picks |-> ContestedPicks, trades |-> CrossedOffers] }

\* the rows the next UPDATE of a request's transaction matches
NextUpdateRows(p) ==
    IF proc[p].pc = "updateInitiator" THEN OwnedRows(TxView(proc[p].moved), proc[p].trade.initiatorId, proc[p].trade.initiatorTeamId)
    ELSE IF proc[p].pc = "updateRecipient" THEN OwnedRows(TxView(proc[p].moved), proc[p].trade.recipientId, proc[p].trade.recipientTeamId)
    ELSE {}

\* the next UPDATE of p matches a row that q's open transaction has updated
WaitsFor(p, q) ==
    /\ q # p
    /\ proc[q].pc \in {"updateRecipient", "commitTrade"}
    /\ NextUpdateRows(p) \cap DOMAIN proc[q].moved # {}

Deadlocked(p) == \E q \in DOMAIN proc : WaitsFor(p, q) /\ WaitsFor(q, p)

\* the database aborts a transaction of a deadlock: the UPDATE throws, the
\* transaction is rolled back and the catch block returns
respondToTradeOffer_deadlock(p) ==
    /\ Deadlocked(p)
    /\ proc' = [proc EXCEPT ![p] =
           Return(proc[p].call, FALSE, "Failed to respond to trade offer")]
    /\ UNCHANGED <<store, now>>

InitSwap ==
    /\ \E st \in SwapStores : picks = st.picks /\ trades = st.trades
    /\ auctions = << NewAuction("c1"), NewAuction("c2") >>
    /\ bids = <<>>
    /\ scores = NoScores
    /\ now = 0
    /\ proc = [p \in RaceProcs |-> Idle]

NextSwap ==
    \/ \E p \in RaceProcs :
          /\ Free(p)
          /\ \E t \in TradeIds, accept \in BOOLEAN : respondToTradeOffer_read(p, t, accept)
    \/ \E p \in RaceProcs : respondToTradeOffer_reject(p)
    \/ \E p \in RaceProcs : respondToTradeOffer_updateInitiator(p)
    \/ \E p \in RaceProcs : respondToTradeOffer_updateRecipient(p)
    \/ \E p \in RaceProcs : respondToTradeOffer_commit(p)
    \/ \E p \in RaceProcs : respondToTradeOffer_deadlock(p)

SpecSwap == InitSwap /\ [][NextSwap]_vars

\* the Pick row of a user on a team goes to another user in this step
RowMoves(userId, teamId, newUser) ==
    \E i \in 1..Len(picks) :
        /\ picks[i].userId = userId /\ picks[i].teamId = teamId
        /\ picks'[i].userId = newUser

\* C25: the swap is atomic: whenever Pick rows change owner, both rows of
\* a trade change owner, the initiator's to the recipient and the
\* recipient's to the initiator, and the trade is accepted in the same step
C25_SwapIsAtomic ==
    [][picks' # picks =>
          \E t \in TradeIds :
              /\ trades[t].status # "accepted"
              /\ trades'[t].status = "accepted"
              /\ RowMoves(trades[t].initiatorId, trades[t].initiatorTeamId, trades[t].recipientId)
              /\ RowMoves(trades[t].recipientId, trades[t].recipientTeamId, trades[t].initiatorId)]_vars

\* C26: no two requests wait for each other
C26_NoDeadlock == \A p \in DOMAIN proc : ~Deadlocked(p)


-----------------------------------------------------------------------------
(* Claims on closed auctions *)

\* C31: in every state a closed auction has the maximum amount of its Bid
\* rows as final amount and a bidder of that maximum as winning user, and
\* has neither exactly when it has no Bid row, also when the statements of
\* closeAuction and placeBid requests interleave
C31_ClosedMatchesBids ==
    \A a \in AuctionIds :
        auctions[a].status = "closed" =>
            IF BidsOf(a) = {}
            THEN auctions[a].finalBidAmount = None /\ auctions[a].winnerUserId = None
            ELSE LET top == Max({bids[i].amount : i \in BidsOf(a)})
                 IN /\ auctions[a].finalBidAmount = Some(top)
                    /\ \E i \in BidsOf(a) :
                          /\ bids[i].amount = top
                          /\ auctions[a].winnerUserId = Some(bids[i].userId)


\* C32: once an auction is closed its winning user and its final amount
\* never change, whatever request takes its steps afterwards
C32_ClosedResultIsFinal ==
    [][\A a \in AuctionIds :
          auctions[a].status = "closed" =>
              /\ auctions'[a].winnerUserId = auctions[a].winnerUserId
              /\ auctions'[a].finalBidAmount = auctions[a].finalBidAmount]_vars


-----------------------------------------------------------------------------
(* Claims on responses to the same trade *)

\* the two responses that have returned were responses to the same trade,
\* one of them at least an accept
SameTradeAnswered(p, q) ==
    /\ p # q
    /\ Done(p, "respondToTradeOffer") /\ Done(q, "respondToTradeOffer")
    /\ proc[p].call.tradeId = proc[q].call.tradeId
    /\ proc[p].call.accept \/ proc[q].call.accept

\* C33: of two responses to the same trade, an accept and a reject or two
\* accepts, at most one returns success, and
\* once the requests have returned the Pick rows have changed owner if and
\* only if a trade is accepted
C33_OneResponseWins ==
    /\ \A p, q \in DOMAIN proc :
          SameTradeAnswered(p, q) => ~(proc[p].isSuccess /\ proc[q].isSuccess)
    /\ (\A p \in DOMAIN proc : Free(p))
       => (picks # ThreeUserPicks <=> \E t \in TradeIds : trades[t].status = "accepted")


\* C34: no step of a respondToTradeOffer request changes the number of Pick
\* rows a user holds
C34_ResponseKeepsRowCounts ==
    [][\A p \in DOMAIN proc :
          Runs(p, "respondToTradeOffer") =>
              \A u \in Users :
                  Cardinality(PicksOfUser(u))' = Cardinality(PicksOfUser(u))]_vars


-----------------------------------------------------------------------------
(* Claims on the frame of closeAuction *)

\* C35: a closeAuction request changes the row of the auction it names and
\* nothing else: no other Auction row, no Pick row (the winner does not
\* become the holder of the team's rows), no Bid, Trade or Score row
C35_CloseChangesOneRow ==
    [][\A p \in DOMAIN proc :
          Runs(p, "closeAuction") =>
              /\ picks' = picks
              /\ bids' = bids
              /\ trades' = trades
              /\ scores' = scores
              /\ Len(auctions') = Len(auctions)
              /\ \A a \in AuctionIds :
                    a # proc'[p].call.auctionId => auctions'[a] = auctions[a]]_vars

\* the auction of c1 was closed with u1 as winner while u2 holds a Pick on
\* c1 too, with a trade and a score on record
C35_Witness ==
    /\ \E p \in DOMAIN proc :
          /\ Done(p, "closeAuction")
          /\ proc[p].message = "Auction closed successfully"
    /\ auctions[1].status = "closed"
    /\ auctions[1].winnerUserId = Some("u1")
    /\ Holds("u1", "c1") /\ Holds("u2", "c1")
    /\ trades # <<>>
    /\ \E u \in Users : scores[u] # None


-----------------------------------------------------------------------------
(* Two round results whose statements interleave: each of two requests      *)
(* makes one call                                                           *)

\* a 9-seed and a 16-seed
RaceScoreTeams == {"c1", "c3"}

RaceRounds ==
    { <<"r", "o", "u", "n", "d", " ", "o", "f", " ", "6", "4">>,
      <<"S", "w", "e", "e", "t", " ", "1", "6">> }

NextScoreRace ==
    \/ \E p \in RaceProcs :
          /\ proc[p].pc = "idle"
          /\ \E t \in RaceScoreTeams, round \in RaceRounds : updateScores_findTeam(p, t, round)
    \/ \E p \in RaceProcs : updateScores_findPicks(p)
    \/ \E p \in RaceProcs : updateScores_ensureRow(p)
    \/ \E p \in RaceProcs : updateScores_increment(p)

SpecScoreRace == InitScoreTwice /\ [][NextScoreRace]_vars

\* what the call of request p has awarded to user u once it has returned:
\* its points for every Pick row of u on the winning team
AwardedTo(p, u) ==
    IF Done(p, "updateScores") /\ proc[p].isSuccess
    THEN proc[p].pointsAwarded * Cardinality(OwnedRows(picks, u, proc[p].call.winningTeamId))
    ELSE 0

\* C36: no increment is lost: when the calls have returned, the score of
\* every user is the sum of what the calls awarded to the user, also when
\* their statements interleaved and the first of them created the Score row
C36_NoLostIncrement ==
    (\A p \in DOMAIN proc : proc[p].pc \in {"idle", "done"})
    => \A u \in Users : ScoreValue(u) = AwardedTo(1, u) + AwardedTo(2, u)

\* two calls for c1 overlap, 9 and 18 points: both have incremented the
\* score of u1, whose row one of them created, neither has returned, and u1
\* has 27
C36_Witness ==
    /\ proc[1].pc = "ensureRow" /\ proc[1].k = 2 /\ proc[1].pointsAwarded = 9
    /\ proc[2].pc = "ensureRow" /\ proc[2].k = 2 /\ proc[2].pointsAwarded = 18
    /\ proc[1].call.winningTeamId = "c1" /\ proc[2].call.winningTeamId = "c1"
    /\ proc[1].relevantPicks[1] = "u1" /\ proc[2].relevantPicks[1] = "u1"
    /\ scores["u1"] = Some(27)


-----------------------------------------------------------------------------
(* Claims on the inputs of updateScores and placeBid *)

\* C37: an updateScores call for an identifier of no team returns a failure
\* in its first step and creates or changes no Score row
C37_UnknownTeamFails ==
    [][\A p \in DOMAIN proc :
          (Starts(p, "updateScores") /\ proc'[p].call.winningTeamId \notin TeamIds)
          => /\ proc'[p].pc = "done"
             /\ ~proc'[p].isSuccess
             /\ scores' = scores]_vars

\* a call for an unknown team has failed after points had been awarded
C37_Witness ==
    \E p \in DOMAIN proc :
        /\ Done(p, "updateScores")
        /\ proc[p].call.winningTeamId = UnknownTeam
        /\ ~proc[p].isSuccess
        /\ proc[p].message = "Winning team not found"
        /\ \E u \in Users : ScoreValue(u) > 0


\* C38: a placeBid is rejected on time grounds only when the auction has an
\* end time and the current time is strictly later: at the end time itself,
\* and on an auction without end time, a bid on a scheduled or open auction
\* passes the check on the auction
C38_EndTimeIsStrict ==
    [][\A p \in DOMAIN proc :
          Starts(p, "placeBid") =>
              LET a == proc'[p].call.auctionId
                  rejected == /\ proc'[p].pc = "done"
                              /\ proc'[p].message = "Auction has already ended."
              IN /\ rejected => /\ a \in AuctionIds
                                 /\ auctions[a].endTime # None
                                 /\ now > auctions[a].endTime[1]
                 /\ (/\ a \in AuctionIds
                     /\ auctions[a].status \in {"scheduled", "open"}
                     /\ (auctions[a].endTime = None \/ now <= auctions[a].endTime[1]))
                    => proc'[p].pc = "readMax"]_vars

\* a bid was accepted at the end time of its auction, and one on the auction
\* without end time
C38_Witness ==
    /\ now = 0
    /\ \E i \in 1..Len(bids) :
          /\ auctions[bids[i].auctionId].endTime = Some(now)
    /\ \E j \in 1..Len(bids) :
          /\ auctions[bids[j].auctionId].endTime = None

=============================================================================
